---- MODULE Spec2Model ----
(***************************************************************************)
(* Dependency Analyzer: the analysis orchestrator of src/core/server.ts    *)
(* (the process-wide cache slot, the single-flight flag, the two HTTP      *)
(* routes and the startup callback) together with the heuristic analysis   *)
(* of src/analyzers/heuristicAnalyzer.ts that every run executes.          *)
(*                                                                         *)
(* Node runs every handler and every promise continuation to completion    *)
(* before the next macrotask, so one action is one handler or one          *)
(* continuation, from the event that starts it to its next await.          *)
(***************************************************************************)
EXTENDS Integers, Sequences, FiniteSets, TLC

VARIABLES
    listening,          \* the callback of app.listen has been entered
    crashed,            \* the process died of an unhandled rejection
    apiKey,             \* process.env.GEMINI_API_KEY is set
    cachedAnalysis,     \* server.ts:82, <<>> is null, <<r>> holds report r
    isAnalysisRunning,  \* server.ts:83
    req,                \* the callers, in order of arrival
    now,                \* the clock read by new Date(), one tick per report
    parseCalls,         \* calls of parseDependencies so far
    llmCalls,           \* calls of analyzeWithLlm so far
    heurCalls,          \* calls of analyzeHeuristically so far
    lastRun,            \* the pipeline that ended last: how, whose, on what
    hInput,             \* the dependencyMap handed to the heuristic analyzer
    hPc,                \* where a call of the heuristic analyzer stands
    hCycles,            \* what findCircularDependencies returned
    hHubs,              \* what findTightlyCoupledModules returned, by threshold
    hDfs,               \* visited, recursionStack and the last path when
                        \* findCircularDependencies returned, and its calls
    platform,           \* the host's path convention: "posix" or "win32"
    tree,               \* the files under src/, in the order glob lists them
    pPc,                \* where a call of parseDependencies stands
    analysisFiles,      \* parser.ts:75, the files the loop goes through
    fileIdx,            \* the file the loop of parser.ts:81 is at
    depMap,             \* parser.ts:62, the dependencyMap being built
    warnings,           \* the files console.error reported as unreadable
    sentMessage,        \* what chat.sendMessage was given, <<>> before the call
    prevRun             \* graph and message of the run before this one

serverVars == <<listening, crashed, apiKey, cachedAnalysis, isAnalysisRunning, req,
                now, parseCalls, llmCalls, heurCalls, lastRun>>

heurVars == <<hInput, hPc, hCycles, hHubs, hDfs>>

parserVars == <<platform, tree, pPc, analysisFiles, fileIdx, depMap, warnings,
                sentMessage, prevRun>>

vars == <<serverVars, heurVars, parserVars>>

\* HTTP requests the model lets arrive (the startup callback comes on top).
MaxRequests == 2

null == <<>>

(***************************************************************************)
(* The dependency graph: a Map<string, string[]> in insertion order, kept  *)
(* as the sequence of its entries.                                         *)
(***************************************************************************)
mapKeys(m) == [i \in 1..Len(m) |-> m[i].key]

mapHas(m, k) == \E i \in 1..Len(m) : m[i].key = k

\* dependencyMap.get(node) || []
mapGet(m, k) ==
    IF mapHas(m, k) THEN m[CHOOSE i \in 1..Len(m) : m[i].key = k].deps ELSE <<>>

\* Map.set: a new key goes last, a known key keeps its place.
mapSet(m, k, v) ==
    IF mapHas(m, k)
    THEN [i \in 1..Len(m) |-> IF m[i].key = k THEN [key |-> k, deps |-> v] ELSE m[i]]
    ELSE Append(m, [key |-> k, deps |-> v])

Range(s) == {s[i] : i \in 1..Len(s)}

\* Array.prototype.indexOf, 0-based, -1 when absent.
indexOf(s, x) ==
    IF x \in Range(s) THEN (CHOOSE i \in 1..Len(s) : s[i] = x /\ \A j \in 1..(i-1) : s[j] # x) - 1
    ELSE -1

\* Array.prototype.slice(start): a negative start counts from the end.
slice(s, start) ==
    LET from == IF start < 0 THEN (IF Len(s) + start < 0 THEN 0 ELSE Len(s) + start)
                ELSE start
    IN  SubSeq(s, from + 1, Len(s))

\* Set.add over a sequence of items, the set kept in insertion order.
RECURSIVE addAll(_, _)
addAll(set, items) ==
    IF items = <<>> THEN set
    ELSE addAll(IF Head(items) \in Range(set) THEN set ELSE Append(set, Head(items)),
                Tail(items))

RECURSIVE allDeps(_)
allDeps(m) == IF m = <<>> THEN <<>> ELSE Head(m).deps \o allDeps(Tail(m))

\* new Set(dependencyMap.keys()), then every dep of every entry added.
allNodes(m) == addAll(addAll(<<>>, mapKeys(m)), allDeps(m))

RECURSIVE detectCycle(_, _, _)
RECURSIVE visitDependencies(_, _, _, _)
RECURSIVE visitDependenciesVisited(_, _, _, _)
RECURSIVE visitDependenciesOpenPath(_, _, _, _)
RECURSIVE visitDependenciesDedup(_, _, _, _)

\* The loop with a push that leaves out a record the list already has.
visitDependenciesDedup(m, dependencies, i, st) ==
    IF i > Len(dependencies) THEN st
    ELSE LET dependency == dependencies[i] IN
         IF dependency \in st.recursionStack
         THEN LET cyclePath == Append(slice(st.path, indexOf(st.path, dependency)),
                                      dependency)
              IN  visitDependenciesDedup(m, dependencies, i + 1,
                      IF [path |-> cyclePath] \in Range(st.cycles) THEN st
                      ELSE [st EXCEPT !.cycles = Append(@, [path |-> cyclePath])])
         ELSE IF dependency \notin st.visited
         THEN visitDependenciesDedup(m, dependencies, i + 1,
                                     detectCycle(m, dependency, st))
         ELSE visitDependenciesDedup(m, dependencies, i + 1, st)

\* The loop with the test on visited where the code tests recursionStack.
visitDependenciesVisited(m, dependencies, i, st) ==
    IF i > Len(dependencies) THEN st
    ELSE LET dependency == dependencies[i] IN
         IF dependency \in st.visited
         THEN LET cyclePath == Append(slice(st.path, indexOf(st.path, dependency)),
                                      dependency)
              IN  visitDependenciesVisited(m, dependencies, i + 1,
                      [st EXCEPT !.cycles = Append(@, [path |-> cyclePath])])
         ELSE visitDependenciesVisited(m, dependencies, i + 1,
                                       detectCycle(m, dependency, st))

\* The loop with a cyclePath that is not closed by the dependency.
visitDependenciesOpenPath(m, dependencies, i, st) ==
    IF i > Len(dependencies) THEN st
    ELSE LET dependency == dependencies[i] IN
         IF dependency \in st.recursionStack
         THEN LET cyclePath == slice(st.path, indexOf(st.path, dependency))
              IN  visitDependenciesOpenPath(m, dependencies, i + 1,
                      [st EXCEPT !.cycles = Append(@, [path |-> cyclePath])])
         ELSE IF dependency \notin st.visited
         THEN visitDependenciesOpenPath(m, dependencies, i + 1,
                                        detectCycle(m, dependency, st))
         ELSE visitDependenciesOpenPath(m, dependencies, i + 1, st)

\* The for loop of detectCycle over dependencies, from position i on.
visitDependencies(m, dependencies, i, st) ==
    IF i > Len(dependencies) THEN st
    ELSE LET dependency == dependencies[i] IN
         IF dependency \in st.recursionStack
         THEN LET cyclePath == Append(slice(st.path, indexOf(st.path, dependency)),
                                      dependency)
              IN  visitDependencies(m, dependencies, i + 1,
                      [st EXCEPT !.cycles = Append(@, [path |-> cyclePath])])
         ELSE IF dependency \notin st.visited
         THEN visitDependencies(m, dependencies, i + 1, detectCycle(m, dependency, st))
         ELSE visitDependencies(m, dependencies, i + 1, st)

\* detectCycle without the path.pop() of its last lines.
detectCycleNoPop(m, node, st) ==
    LET entered == [st EXCEPT !.visited = @ \cup {node},
                              !.recursionStack = @ \cup {node},
                              !.path = Append(@, node),
                              !.calls = Append(@, node)]
        explored == visitDependencies(m, mapGet(m, node), 1, entered)
    IN  [explored EXCEPT !.recursionStack = @ \ {node}]

detectCycle(m, node, st) ==
    LET entered == [st EXCEPT !.visited = @ \cup {node},
                              !.recursionStack = @ \cup {node},
                              !.path = Append(@, node),
                              !.calls = Append(@, node)]
        explored == visitDependencies(m, mapGet(m, node), 1, entered)
    IN  [explored EXCEPT !.path = SubSeq(@, 1, Len(@) - 1),
                         !.recursionStack = @ \ {node}]

\* A traversal that starts from the first node only.
visitRootsFirstOnly(m, nodes, i, st) ==
    IF i > Len(nodes) THEN st
    ELSE detectCycle(m, nodes[i], [st EXCEPT !.path = <<>>])

\* The loop over allNodes without its test on visited.
RECURSIVE visitRootsNoVisitedCheck(_, _, _, _)
visitRootsNoVisitedCheck(m, nodes, i, st) ==
    IF i > Len(nodes) THEN st
    ELSE visitRootsNoVisitedCheck(m, nodes, i + 1,
                                  detectCycle(m, nodes[i], [st EXCEPT !.path = <<>>]))

\* The for loop over allNodes, from position i on; every root gets a new path.
RECURSIVE visitRoots(_, _, _, _)
visitRoots(m, nodes, i, st) ==
    IF i > Len(nodes) THEN st
    ELSE IF nodes[i] \notin st.visited
    THEN visitRoots(m, nodes, i + 1, detectCycle(m, nodes[i], [st EXCEPT !.path = <<>>]))
    ELSE visitRoots(m, nodes, i + 1, st)

\* The sets and lists of findCircularDependencies before the first call of
\* detectCycle; calls lists the nodes detectCycle is entered with.
NoTraversal ==
    [cycles |-> <<>>, visited |-> {}, recursionStack |-> {}, path |-> <<>>, calls |-> <<>>]

\* findCircularDependencies up to its return statement.
traverse(m) == visitRoots(m, allNodes(m), 1, NoTraversal)

findCircularDependencies(m) == traverse(m).cycles

\* The loops with a push that leaves out an importer the list already has.
RECURSIVE fillIncomingDistinct(_, _, _, _)
fillIncomingDistinct(m, e, i, incomingMap) ==
    IF e > Len(m) THEN incomingMap
    ELSE IF i > Len(m[e].deps) THEN fillIncomingDistinct(m, e + 1, 1, incomingMap)
    ELSE LET importedModule == m[e].deps[i]
             known == mapGet(incomingMap, importedModule)
             importers == IF m[e].key \in Range(known) THEN known
                          ELSE Append(known, m[e].key)
         IN  fillIncomingDistinct(m, e, i + 1,
                                  mapSet(incomingMap, importedModule, importers))

\* The nested for loops that fill incomingMap: entry e of the graph, its
\* dependency i, the reverse map built so far.
RECURSIVE fillIncoming(_, _, _, _)
fillIncoming(m, e, i, incomingMap) ==
    IF e > Len(m) THEN incomingMap
    ELSE IF i > Len(m[e].deps) THEN fillIncoming(m, e + 1, 1, incomingMap)
    ELSE LET importedModule == m[e].deps[i]
             importers == Append(mapGet(incomingMap, importedModule), m[e].key)
         IN  fillIncoming(m, e, i + 1, mapSet(incomingMap, importedModule, importers))

\* A sort that puts a hub behind the later hubs of its size.
RECURSIVE sortHubsTiesReversed(_)
sortHubsTiesReversed(hubs) ==
    IF hubs = <<>> THEN <<>>
    ELSE LET sorted == sortHubsTiesReversed(Tail(hubs))
             h == Head(hubs)
             before == SelectSeq(sorted, LAMBDA x : Len(x.importedBy) >= Len(h.importedBy))
             after == SelectSeq(sorted, LAMBDA x : Len(x.importedBy) < Len(h.importedBy))
         IN  before \o <<h>> \o after

\* Array.prototype.sort with (a, b) => b.importedBy.length - a.importedBy.length:
\* stable, so equal counts keep their order.
RECURSIVE sortHubs(_)
sortHubs(hubs) ==
    IF hubs = <<>> THEN <<>>
    ELSE LET sorted == sortHubs(Tail(hubs))
             h == Head(hubs)
             before == SelectSeq(sorted, LAMBDA x : Len(x.importedBy) > Len(h.importedBy))
             after == SelectSeq(sorted, LAMBDA x : Len(x.importedBy) <= Len(h.importedBy))
         IN  before \o <<h>> \o after

\* The filter with > where the code has >=.
findTightlyCoupledModulesStrict(m, threshold) ==
    LET incomingMap == fillIncoming(m, 1, 1, <<>>)
        hubs == [i \in 1..Len(incomingMap) |->
                    [module |-> incomingMap[i].key, importedBy |-> incomingMap[i].deps]]
    IN  sortHubs(SelectSeq(hubs, LAMBDA h : Len(h.importedBy) > threshold))

findTightlyCoupledModules(m, threshold) ==
    LET incomingMap == fillIncoming(m, 1, 1, <<>>)
        hubs == [i \in 1..Len(incomingMap) |->
                    [module |-> incomingMap[i].key, importedBy |-> incomingMap[i].deps]]
    IN  sortHubs(SelectSeq(hubs, LAMBDA h : Len(h.importedBy) >= threshold))

\* The loops over the arrays as objects, with a loop that empties the
\* array of an entry once it has gone through it.
RECURSIVE fillIncomingObjectsConsuming(_, _, _, _, _)
fillIncomingObjectsConsuming(keys, e, i, incomingMap, objects) ==
    IF e > Len(keys) THEN [incomingMap |-> incomingMap, objects |-> objects]
    ELSE IF i > Len(objects[e])
    THEN fillIncomingObjectsConsuming(keys, e + 1, 1, incomingMap,
                                      [objects EXCEPT ![e] = <<>>])
    ELSE LET importedModule == objects[e][i]
             known == mapHas(incomingMap, importedModule)
             importers == IF known THEN mapGet(incomingMap, importedModule)
                          ELSE Len(objects) + 1
             allocated == IF known THEN objects ELSE Append(objects, <<>>)
             pushed == [allocated EXCEPT ![importers] = Append(@, keys[e])]
         IN  fillIncomingObjectsConsuming(keys, e, i + 1,
                 mapSet(incomingMap, importedModule, importers), pushed)

\* The nested for loops once more, with the arrays as objects that can be
\* written to: object e is the array of entry e of the dependencyMap, the
\* arrays the loops create come behind them, and incomingMap holds the
\* number of an object for each module.  incomingMap.get(importedModule)
\* gives an object of incomingMap or a new empty one; push writes to it.
RECURSIVE fillIncomingObjects(_, _, _, _, _)
fillIncomingObjects(keys, e, i, incomingMap, objects) ==
    IF e > Len(keys) THEN [incomingMap |-> incomingMap, objects |-> objects]
    ELSE IF i > Len(objects[e])
    THEN fillIncomingObjects(keys, e + 1, 1, incomingMap, objects)
    ELSE LET importedModule == objects[e][i]
             known == mapHas(incomingMap, importedModule)
             importers == IF known THEN mapGet(incomingMap, importedModule)
                          ELSE Len(objects) + 1
             allocated == IF known THEN objects ELSE Append(objects, <<>>)
             pushed == [allocated EXCEPT ![importers] = Append(@, keys[e])]
         IN  fillIncomingObjects(keys, e, i + 1,
                 mapSet(incomingMap, importedModule, importers), pushed)

\* findTightlyCoupledModules on objects: the hubs it returns and the
\* dependencyMap as the call leaves it.  The filter and the sort write to
\* the new hubs array only.
findTightlyCoupledModulesOnObjects(m, threshold) ==
    LET filled == fillIncomingObjects(mapKeys(m), 1, 1, <<>>,
                                      [e \in 1..Len(m) |-> m[e].deps])
        hubs == [i \in 1..Len(filled.incomingMap) |->
                    [module |-> filled.incomingMap[i].key,
                     importedBy |-> filled.objects[filled.incomingMap[i].deps]]]
    IN  [hubs |-> sortHubs(SelectSeq(hubs, LAMBDA h : Len(h.importedBy) >= threshold)),
         dependencyMap |-> [e \in 1..Len(m) |->
                               [key |-> m[e].key, deps |-> filled.objects[e]]]]

HUB_THRESHOLD == 3

analyzeHeuristically(m) ==
    [circularDependencies |-> findCircularDependencies(m),
     tightlyCoupledModules |-> findTightlyCoupledModules(m, HUB_THRESHOLD)]

(***************************************************************************)
(* What the collaborators of a run can deliver.                            *)
(***************************************************************************)
\* Graphs parseDependencies can return: no file found, a two-file cycle, a hub.
ServerGraphs ==
    { <<>>,
      << [key |-> "a.ts", deps |-> <<"b.ts">>], [key |-> "b.ts", deps |-> <<"a.ts">>] >>,
      << [key |-> "a.ts", deps |-> <<"d.ts">>], [key |-> "b.ts", deps |-> <<"d.ts">>],
         [key |-> "c.ts", deps |-> <<"d.ts">>] >> }

\* How analyzeDependencies ends once the key is there: the three paths that
\* return null, and the parsed answer.
LlmOutcomes == {"blocked", "requestError", "badJson", "ok"}

\* The AnalysisResult object parsed from the model's answer, or null.
llmResult(outcome) == IF outcome = "ok" THEN <<"AnalysisResult">> ELSE null

NoResponse == [status |-> 0, message |-> "", data |-> null, error |-> ""]

NoRun == [outcome |-> "none", by |-> 0, before |-> null, graph |-> <<>>, error |-> ""]

\* Callers whose pipeline is between its first and its last step.
InPipeline == {i \in 1..Len(req) : req[i].pc \in {"parsing", "analyzing"}}

Polling == {i \in 1..Len(req) : req[i].pc = "polling"}

\* No call of the heuristic analyzer on its own is under way.
HeurIdle ==
    hInput = <<>> /\ hPc = "idle" /\ hCycles = <<>> /\ hHubs = <<>> /\ hDfs = NoTraversal

\* No build of the graph on its own is under way.
ParserIdle ==
    /\ platform = "posix"
    /\ tree = <<>>
    /\ pPc = "idle"
    /\ analysisFiles = <<>>
    /\ fileIdx = 0
    /\ depMap = <<>>
    /\ warnings = <<>>
    /\ sentMessage = null
    /\ prevRun = null

Init ==
    /\ listening = FALSE
    /\ crashed = FALSE
    /\ apiKey \in BOOLEAN
    /\ cachedAnalysis = null
    /\ isAnalysisRunning = FALSE
    /\ req = <<>>
    /\ now = 0
    /\ parseCalls = 0
    /\ llmCalls = 0
    /\ heurCalls = 0
    /\ lastRun = NoRun
    /\ HeurIdle
    /\ ParserIdle

\* A caller as it arrives: what it is and where it stands; what was cached,
\* whose pipeline was in flight and how many graph builds had been started
\* when its handler returned.
Caller(kind, pc) ==
    [kind |-> kind, pc |-> pc, seen |-> cachedAnalysis, inFlight |-> InPipeline,
     builds |-> IF pc = "parsing" THEN parseCalls + 1 ELSE parseCalls,
     settled |-> "pending", value |-> null, graph |-> <<>>, heur |-> <<>>,
     resp |-> NoResponse]

\* runFullAnalysis without the isAnalysisRunning check of its first lines.
runFullAnalysisUnguarded(kind) ==
    /\ isAnalysisRunning' = TRUE
    /\ parseCalls' = parseCalls + 1
    /\ req' = Append(req, Caller(kind, "parsing"))

\* runFullAnalysis up to its first await, entered by a caller of this kind: a
\* run in flight makes it poll, otherwise it takes the flag and starts the
\* graph build.
runFullAnalysis(kind) ==
    IF isAnalysisRunning
    THEN /\ req' = Append(req, Caller(kind, "polling"))
         /\ UNCHANGED <<isAnalysisRunning, parseCalls>>
    ELSE /\ isAnalysisRunning' = TRUE
         /\ parseCalls' = parseCalls + 1
         /\ req' = Append(req, Caller(kind, "parsing"))

\* What the caller does with the report its runFullAnalysis resolved with.
onResolved(kind, report) ==
    CASE kind = "GET" ->
            [status |-> 200, message |-> "", data |-> <<report>>, error |-> ""]
      [] kind = "POST" ->
            [status |-> 200, message |-> "Analysis successfully refreshed.",
             data |-> <<report>>, error |-> ""]
      [] OTHER -> NoResponse

\* What the caller does with the Error its runFullAnalysis rejected with.
onRejected(kind, error) ==
    CASE kind = "GET" ->
            [status |-> 500, message |-> "Analysis failed to run on demand.",
             data |-> null, error |-> error]
      [] kind = "POST" ->
            [status |-> 500, message |-> "Failed to refresh analysis.",
             data |-> null, error |-> error]
      [] OTHER -> NoResponse

\* The rejection reaches the caller. The startup callback awaits without a
\* catch, so its rejection is unhandled: the process dies or only warns,
\* depending on the Node version and --unhandled-rejections.
deliverRejection(kind) ==
    IF kind = "STARTUP" THEN crashed' \in BOOLEAN ELSE crashed' = crashed

\* A catch block that also drops the cached report.
failClearsCache(i, graph, error) ==
    /\ isAnalysisRunning' = FALSE
    /\ cachedAnalysis' = null
    /\ now' = now
    /\ req' = [req EXCEPT ![i] = [@ EXCEPT !.pc = "done", !.settled = "rejected",
                                           !.graph = <<>>, !.heur = <<>>,
                                           !.resp = onRejected(req[i].kind, error)]]
    /\ lastRun' = [outcome |-> "failed", by |-> i, before |-> req[i].seen,
                   graph |-> graph, error |-> error]
    /\ deliverRejection(req[i].kind)

\* A catch block with no finally after it: the flag stays as it is.
failLeavesFlag(i, graph, error) ==
    /\ isAnalysisRunning' = isAnalysisRunning
    /\ cachedAnalysis' = cachedAnalysis
    /\ now' = now
    /\ req' = [req EXCEPT ![i] = [@ EXCEPT !.pc = "done", !.settled = "rejected",
                                           !.graph = <<>>, !.heur = <<>>,
                                           !.resp = onRejected(req[i].kind, error)]]
    /\ lastRun' = [outcome |-> "failed", by |-> i, before |-> req[i].seen,
                   graph |-> graph, error |-> error]
    /\ deliverRejection(req[i].kind)

\* The catch and finally blocks of runFullAnalysis, then the caller's handler;
\* graph is <<>> when the build threw and <<dependencyMap>> when it returned.
fail(i, graph, error) ==
    /\ isAnalysisRunning' = FALSE
    /\ cachedAnalysis' = cachedAnalysis
    /\ now' = now
    /\ req' = [req EXCEPT ![i] = [@ EXCEPT !.pc = "done", !.settled = "rejected",
                                           !.graph = <<>>, !.heur = <<>>,
                                           !.resp = onRejected(req[i].kind, error)]]
    /\ lastRun' = [outcome |-> "failed", by |-> i, before |-> req[i].seen,
                   graph |-> graph, error |-> error]
    /\ deliverRejection(req[i].kind)

\* A run that caches its report only while nothing is cached.
succeedKeepsCached(i, llm) ==
    LET report == [timestamp |-> now + 1, llmAnalysis |-> llm,
                   heuristicAnalysis |-> req[i].heur]
    IN  /\ now' = now + 1
        /\ cachedAnalysis' = IF cachedAnalysis = null THEN <<report>> ELSE cachedAnalysis
        /\ isAnalysisRunning' = FALSE
        /\ req' = [req EXCEPT ![i] = [@ EXCEPT !.pc = "done", !.settled = "resolved",
                                               !.value = <<report>>,
                                               !.graph = <<>>, !.heur = <<>>,
                                               !.resp = onResolved(req[i].kind, report)]]
        /\ lastRun' = [outcome |-> "ok", by |-> i, before |-> req[i].seen,
                       graph |-> <<req[i].graph>>, error |-> ""]
        /\ crashed' = crashed

\* A report that takes its heuristic part from the report cached before.
succeedMixesRuns(i, llm) ==
    LET report == [timestamp |-> now + 1, llmAnalysis |-> llm,
                   heuristicAnalysis |-> IF cachedAnalysis = null THEN req[i].heur
                                         ELSE cachedAnalysis[1].heuristicAnalysis]
    IN  /\ now' = now + 1
        /\ cachedAnalysis' = <<report>>
        /\ isAnalysisRunning' = FALSE
        /\ req' = [req EXCEPT ![i] = [@ EXCEPT !.pc = "done", !.settled = "resolved",
                                               !.value = <<report>>,
                                               !.graph = <<>>, !.heur = <<>>,
                                               !.resp = onResolved(req[i].kind, report)]]
        /\ lastRun' = [outcome |-> "ok", by |-> i, before |-> req[i].seen,
                       graph |-> <<req[i].graph>>, error |-> ""]
        /\ crashed' = crashed

\* The report is built, cached and returned; finally; the caller's handler.
succeed(i, llm) ==
    LET report == [timestamp |-> now + 1, llmAnalysis |-> llm,
                   heuristicAnalysis |-> req[i].heur]
    IN  /\ now' = now + 1
        /\ cachedAnalysis' = <<report>>
        /\ isAnalysisRunning' = FALSE
        /\ req' = [req EXCEPT ![i] = [@ EXCEPT !.pc = "done", !.settled = "resolved",
                                               !.value = <<report>>,
                                               !.graph = <<>>, !.heur = <<>>,
                                               !.resp = onResolved(req[i].kind, report)]]
        /\ lastRun' = [outcome |-> "ok", by |-> i, before |-> req[i].seen,
                       graph |-> <<req[i].graph>>, error |-> ""]
        /\ crashed' = crashed

\* app.listen's callback: the server is up and the first run starts.
Startup ==
    /\ ~listening /\ ~crashed
    /\ listening' = TRUE
    /\ runFullAnalysis("STARTUP")
    /\ UNCHANGED <<crashed, apiKey, cachedAnalysis, now, llmCalls, heurCalls, lastRun>>

\* A GET that joins the run in flight instead of answering 503.
GetWaits ==
    /\ listening /\ ~crashed
    /\ Len(req) < MaxRequests + 1
    /\ IF cachedAnalysis # null
       THEN /\ req' = Append(req, [Caller("GET", "done") EXCEPT
                          !.settled = "none",
                          !.resp = [status |-> 200, message |-> "",
                                    data |-> cachedAnalysis, error |-> ""]])
            /\ UNCHANGED <<isAnalysisRunning, parseCalls>>
       ELSE runFullAnalysis("GET")
    /\ UNCHANGED <<listening, crashed, apiKey, cachedAnalysis, now, llmCalls,
                   heurCalls, lastRun>>

\* A GET that does not look at the cache.
GetIgnoresCache ==
    /\ listening /\ ~crashed
    /\ Len(req) < MaxRequests + 1
    /\ IF ~isAnalysisRunning
       THEN runFullAnalysis("GET")
       ELSE /\ req' = Append(req, [Caller("GET", "done") EXCEPT
                          !.settled = "none",
                          !.resp = [status |-> 503,
                                    message |-> "Analysis is currently running in the background. Please try again shortly.",
                                    data |-> null, error |-> ""]])
            /\ UNCHANGED <<isAnalysisRunning, parseCalls>>
    /\ UNCHANGED <<listening, crashed, apiKey, cachedAnalysis, now, llmCalls,
                   heurCalls, lastRun>>

\* GET /api/analysis
Get ==
    /\ listening /\ ~crashed
    /\ Len(req) < MaxRequests + 1
    /\ IF cachedAnalysis # null
       THEN /\ req' = Append(req, [Caller("GET", "done") EXCEPT
                          !.settled = "none",
                          !.resp = [status |-> 200, message |-> "",
                                    data |-> cachedAnalysis, error |-> ""]])
            /\ UNCHANGED <<isAnalysisRunning, parseCalls>>
       ELSE IF ~isAnalysisRunning
       THEN runFullAnalysis("GET")
       ELSE /\ req' = Append(req, [Caller("GET", "done") EXCEPT
                          !.settled = "none",
                          !.resp = [status |-> 503,
                                    message |-> "Analysis is currently running in the background. Please try again shortly.",
                                    data |-> null, error |-> ""]])
            /\ UNCHANGED <<isAnalysisRunning, parseCalls>>
    /\ UNCHANGED <<listening, crashed, apiKey, cachedAnalysis, now, llmCalls,
                   heurCalls, lastRun>>

\* POST /api/analysis/refresh
Post ==
    /\ listening /\ ~crashed
    /\ Len(req) < MaxRequests + 1
    /\ runFullAnalysis("POST")
    /\ UNCHANGED <<listening, crashed, apiKey, cachedAnalysis, now, llmCalls,
                   heurCalls, lastRun>>

\* parseDependencies rejects (glob fails): catch, finally.
ParseThrows(i) ==
    /\ ~crashed
    /\ i \in 1..Len(req) /\ req[i].pc = "parsing"
    /\ fail(i, <<>>, "glob failed")
    /\ UNCHANGED <<listening, apiKey, parseCalls, llmCalls, heurCalls>>

\* A run without the dependencyMap.size check.
ParseDoneNoSizeCheck(i) ==
    /\ ~crashed
    /\ i \in 1..Len(req) /\ req[i].pc = "parsing"
    /\ \E dependencyMap \in ServerGraphs :
          /\ llmCalls' = llmCalls + 1
          /\ heurCalls' = heurCalls + 1
          /\ IF apiKey
             THEN /\ req' = [req EXCEPT ![i] =
                               [@ EXCEPT !.pc = "analyzing",
                                         !.graph = dependencyMap,
                                         !.heur = analyzeHeuristically(dependencyMap)]]
                  /\ UNCHANGED <<crashed, cachedAnalysis, isAnalysisRunning, now,
                                 lastRun>>
             ELSE fail(i, <<dependencyMap>>, "LLM analysis failed.")
    /\ UNCHANGED <<listening, apiKey, parseCalls>>

\* parseDependencies resolves with a graph: the size check, then both
\* analyzers are called; without an API key analyzeWithLlm is already null
\* and the run ends in the same turn.
ParseDone(i) ==
    /\ ~crashed
    /\ i \in 1..Len(req) /\ req[i].pc = "parsing"
    /\ \E dependencyMap \in ServerGraphs :
          IF Len(dependencyMap) = 0
          THEN /\ fail(i, <<dependencyMap>>, "Parser found no files or dependencies.")
               /\ UNCHANGED <<llmCalls, heurCalls>>
          ELSE /\ llmCalls' = llmCalls + 1
               /\ heurCalls' = heurCalls + 1
               /\ IF apiKey
                  THEN /\ req' = [req EXCEPT ![i] =
                                    [@ EXCEPT !.pc = "analyzing",
                                              !.graph = dependencyMap,
                                              !.heur = analyzeHeuristically(dependencyMap)]]
                       /\ UNCHANGED <<crashed, cachedAnalysis, isAnalysisRunning, now,
                                      lastRun>>
                  ELSE fail(i, <<dependencyMap>>, "LLM analysis failed.")
    /\ UNCHANGED <<listening, apiKey, parseCalls>>

\* A run without the llmResult check after Promise.all.
AnalyzeDoneNoNullCheck(i) ==
    /\ ~crashed
    /\ i \in 1..Len(req) /\ req[i].pc = "analyzing"
    /\ \E outcome \in LlmOutcomes : succeed(i, llmResult(outcome))
    /\ UNCHANGED <<listening, apiKey, parseCalls, llmCalls, heurCalls>>

\* Promise.all resolves: the external analyzer has answered.
AnalyzeDone(i) ==
    /\ ~crashed
    /\ i \in 1..Len(req) /\ req[i].pc = "analyzing"
    /\ \E outcome \in LlmOutcomes :
          IF llmResult(outcome) = null
          THEN fail(i, <<req[i].graph>>, "LLM analysis failed.")
          ELSE succeed(i, llmResult(outcome))
    /\ UNCHANGED <<listening, apiKey, parseCalls, llmCalls, heurCalls>>

\* A tick that resolves as soon as something is cached, run in flight or not.
PollIgnoresFlag(i) ==
    /\ ~crashed
    /\ i \in 1..Len(req) /\ req[i].pc = "polling"
    /\ cachedAnalysis # null
    /\ req' = [req EXCEPT ![i] = [@ EXCEPT !.pc = "done", !.settled = "resolved",
                                           !.value = cachedAnalysis,
                                           !.resp = onResolved(req[i].kind, cachedAnalysis[1])]]
    /\ UNCHANGED <<listening, crashed, apiKey, cachedAnalysis, isAnalysisRunning, now,
                   parseCalls, llmCalls, heurCalls, lastRun>>

\* A tick of the 100 ms interval of a polling caller that finds no run in
\* flight and a cached report; any other tick changes nothing.
Poll(i) ==
    /\ ~crashed
    /\ i \in 1..Len(req) /\ req[i].pc = "polling"
    /\ ~isAnalysisRunning /\ cachedAnalysis # null
    /\ req' = [req EXCEPT ![i] = [@ EXCEPT !.pc = "done", !.settled = "resolved",
                                           !.value = cachedAnalysis,
                                           !.resp = onResolved(req[i].kind, cachedAnalysis[1])]]
    /\ UNCHANGED <<listening, crashed, apiKey, cachedAnalysis, isAnalysisRunning, now,
                   parseCalls, llmCalls, heurCalls, lastRun>>

Next ==
    \/ Startup /\ UNCHANGED <<heurVars, parserVars>>
    \/ Get /\ UNCHANGED <<heurVars, parserVars>>
    \/ Post /\ UNCHANGED <<heurVars, parserVars>>
    \/ \E i \in 1..(MaxRequests + 1) : ParseThrows(i) /\ UNCHANGED <<heurVars, parserVars>>
    \/ \E i \in 1..(MaxRequests + 1) : ParseDone(i) /\ UNCHANGED <<heurVars, parserVars>>
    \/ \E i \in 1..(MaxRequests + 1) : AnalyzeDone(i) /\ UNCHANGED <<heurVars, parserVars>>
    \/ \E i \in 1..(MaxRequests + 1) : Poll(i) /\ UNCHANGED <<heurVars, parserVars>>

Spec == Init /\ [][Next]_vars

\* The pipeline's awaits return (the build and the analyzer terminate) and
\* the interval timer keeps firing; no request is bound to arrive.
FairSpec ==
    /\ Spec
    /\ \A i \in 1..(MaxRequests + 1) :
          /\ WF_vars((ParseThrows(i) \/ ParseDone(i)) /\ UNCHANGED <<heurVars, parserVars>>)
          /\ WF_vars(AnalyzeDone(i) /\ UNCHANGED <<heurVars, parserVars>>)
          /\ WF_vars(Poll(i) /\ UNCHANGED <<heurVars, parserVars>>)

(***************************************************************************)
(* The heuristic analyzer on its own: a dependency graph goes in, the      *)
(* cycle list and the hub list come out.                                   *)
(***************************************************************************)
\* Edges a graph of the model has at most, all keys together.
MaxEdges == 4

\* The largest hub threshold the model asks for.
MaxThreshold == 4

\* Files that are keys, in insertion order; a graph has a prefix of them.
GraphKeys == <<"A", "B", "C">>

\* What an edge can point to: the files above and two that are never keys.
GraphTargets == {"A", "B", "C", "X", "Y"}

\* Edges of a graph, all keys together.
RECURSIVE edgeCount(_)
edgeCount(m) == IF m = <<>> THEN 0 ELSE Len(Head(m).deps) + edgeCount(Tail(m))

\* The server is not started and stays so.
ServerIdle ==
    /\ listening = FALSE
    /\ crashed = FALSE
    /\ apiKey = FALSE
    /\ cachedAnalysis = null
    /\ isAnalysisRunning = FALSE
    /\ req = <<>>
    /\ now = 0
    /\ parseCalls = 0
    /\ llmCalls = 0
    /\ heurCalls = 0
    /\ lastRun = NoRun

\* The graph is put together entry by entry, as a Map is filled.
HeurInit ==
    /\ ServerIdle
    /\ ParserIdle
    /\ hInput = <<>>
    /\ hPc = "input"
    /\ hCycles = <<>>
    /\ hHubs = <<>>
    /\ hDfs = NoTraversal

\* One more file becomes a key, with no import yet.
AddFile ==
    /\ hPc = "input"
    /\ Len(hInput) < Len(GraphKeys)
    /\ hInput' = Append(hInput, [key |-> GraphKeys[Len(hInput) + 1], deps |-> <<>>])
    /\ UNCHANGED <<hPc, hCycles, hHubs, hDfs, serverVars, parserVars>>

\* The newest file gets one more import.
AddImport(target) ==
    /\ hPc = "input"
    /\ hInput # <<>>
    /\ edgeCount(hInput) < MaxEdges
    /\ hInput' = [hInput EXCEPT ![Len(hInput)].deps = Append(@, target)]
    /\ UNCHANGED <<hPc, hCycles, hHubs, hDfs, serverVars, parserVars>>

\* const circularDependencies = findCircularDependencies(dependencyMap)
FindCycles ==
    /\ hPc = "input"
    /\ hCycles' = findCircularDependencies(hInput)
    /\ hDfs' = traverse(hInput)
    /\ hPc' = "hubs"
    /\ UNCHANGED <<hInput, hHubs, serverVars, parserVars>>

\* findTightlyCoupledModules(dependencyMap, threshold), for every threshold
\* of the model.
FindHubs ==
    /\ hPc = "hubs"
    /\ hHubs' = [t \in 1..MaxThreshold |-> findTightlyCoupledModules(hInput, t)]
    /\ hInput' = findTightlyCoupledModulesOnObjects(hInput, HUB_THRESHOLD).dependencyMap
    /\ hPc' = "done"
    /\ UNCHANGED <<hCycles, hDfs, serverVars, parserVars>>

HeurNext ==
    \/ AddFile
    \/ \E target \in GraphTargets : AddImport(target)
    \/ FindCycles
    \/ FindHubs

HeurSpec == HeurInit /\ [][HeurNext]_vars


(***************************************************************************)
(* The dependency parser of src/core/parser.ts on its own, followed by the *)
(* message analyzeDependencies sends.  A path string is kept as the        *)
(* separator written in it and its segments; a segment is a name and the   *)
(* extension path.extname sees on it.  A source text is kept as its        *)
(* tokens: the words import and from, whitespace, quoted specifiers, and   *)
(* other code.                                                             *)
(***************************************************************************)
\* Files a tree has at most besides the tool's own.
MaxFiles == 2

Seg(base, ext) == [base |-> base, ext |-> ext]

CurDir == Seg(".", "")

ParentDir == Seg("..", "")

\* path.sep
nativeSep(pf) == IF pf = "win32" THEN "\\" ELSE "/"

\* path.relative(process.cwd(), path.resolve(f)) for a file f under the
\* working directory, given by its segments from there.
relative(pf, file) == [sep |-> nativeSep(pf), segs |-> file]

\* path.dirname
dirname(p) ==
    IF Len(p.segs) <= 1 THEN [p EXCEPT !.segs = <<CurDir>>]
    ELSE [p EXCEPT !.segs = SubSeq(@, 1, Len(@) - 1)]

\* The segment-wise part of path.normalize on a relative path: "." goes,
\* ".." takes the segment before it away when there is one to take.
RECURSIVE normalizeSegs(_, _)
normalizeSegs(segs, out) ==
    IF segs = <<>> THEN (IF out = <<>> THEN <<CurDir>> ELSE out)
    ELSE IF Head(segs) = CurDir THEN normalizeSegs(Tail(segs), out)
    ELSE IF Head(segs) = ParentDir /\ out # <<>> /\ out[Len(out)] # ParentDir
    THEN normalizeSegs(Tail(segs), SubSeq(out, 1, Len(out) - 1))
    ELSE normalizeSegs(Tail(segs), Append(out, Head(segs)))

\* path.normalize: the result is written with the host's separator.  (On
\* posix a backslash is no separator; no posix path of the model has one.)
normalize(pf, p) == [sep |-> nativeSep(pf), segs |-> normalizeSegs(p.segs, <<>>)]

\* The segments of an import specifier as written: "./" and what follows.
specSegs(importPath) ==
    IF importPath.dot THEN <<CurDir>> \o importPath.segs ELSE importPath.segs

\* path.join(dir, importPath)
join(pf, dir, importPath) ==
    normalize(pf, [sep |-> nativeSep(pf), segs |-> dir.segs \o specSegs(importPath)])

\* path.extname(importPath)
extname(importPath) ==
    IF importPath.segs = <<>> THEN "" ELSE importPath.segs[Len(importPath.segs)].ext

\* importPath + '.ts', for an importPath without extension
appendTs(importPath) ==
    IF importPath.segs = <<>> THEN [importPath EXCEPT !.segs = <<Seg("", ".ts")>>]
    ELSE [importPath EXCEPT !.segs[Len(importPath.segs)].ext = ".ts"]

\* relativeFilePath.replace(/\\/g, '/')
replaceBackslashes(p) == [p EXCEPT !.sep = "/"]

SourceExtensions == {".ts", ".tsx", ".js", ".jsx"}

Word(t) == [t |-> t]

Quoted(dot, segs) == [t |-> "str", spec |-> [dot |-> dot, segs |-> segs]]

\* The token at k is a quoted specifier that begins with "./".
isDotSpecifier(content, k) ==
    k <= Len(content) /\ content[k].t = "str" /\ content[k].spec.dot

\* \s*: the first position from k on that holds no whitespace.
RECURSIVE skipWhitespace(_, _)
skipWhitespace(content, k) ==
    IF k <= Len(content) /\ content[k].t = "ws" THEN skipWhitespace(content, k + 1)
    ELSE k

Min(S) == CHOOSE x \in S : \A y \in S : x <= y

\* One attempt of importRegex at the import word at i.  The optional group
\* is tried first and runs lazily to the nearest "from" that whitespace and
\* a "./" specifier follow; without the group the specifier has to follow
\* the word import at once.
matchAt(content, i) ==
    LET froms == {j \in (i + 1)..Len(content) :
                    /\ content[j].t = "from"
                    /\ isDotSpecifier(content, skipWhitespace(content, j + 1))}
    IN  IF froms # {}
        THEN [ok |-> TRUE, last |-> skipWhitespace(content, Min(froms) + 1)]
        ELSE IF isDotSpecifier(content, i + 1)
        THEN [ok |-> TRUE, last |-> i + 1]
        ELSE [ok |-> FALSE, last |-> 0]

\* The loop while ((match = importRegex.exec(content)) !== null) from
\* lastIndex on: the captured group of every match, in order.
RECURSIVE execAll(_, _)
execAll(content, lastIndex) ==
    LET starts == {i \in lastIndex..Len(content) :
                     content[i].t = "import" /\ matchAt(content, i).ok}
    IN  IF starts = {} THEN <<>>
        ELSE LET match == matchAt(content, Min(starts))
             IN  <<content[match.last].spec>> \o execAll(content, match.last + 1)

\* The body of the while loop without its continue: an import with another
\* extension is resolved like one with a source extension.
RECURSIVE resolveImportsKeepAll(_, _, _)
resolveImportsKeepAll(pf, relativeFilePath, matches) ==
    IF matches = <<>> THEN <<>>
    ELSE LET importPath == Head(matches)
             fileExtension == extname(importPath)
             dir == dirname(relativeFilePath)
             rest == resolveImportsKeepAll(pf, relativeFilePath, Tail(matches))
         IN  IF fileExtension # ""
             THEN <<normalize(pf, join(pf, dir, importPath))>> \o rest
             ELSE <<normalize(pf, join(pf, dir, appendTs(importPath)))>> \o rest

\* The body of the while loop, match by match: the dependencies pushed.
RECURSIVE resolveImports(_, _, _)
resolveImports(pf, relativeFilePath, matches) ==
    IF matches = <<>> THEN <<>>
    ELSE LET importPath == Head(matches)
             fileExtension == extname(importPath)
             dir == dirname(relativeFilePath)
             rest == resolveImports(pf, relativeFilePath, Tail(matches))
         IN  IF fileExtension # ""
             THEN IF fileExtension \in SourceExtensions
                  THEN <<normalize(pf, join(pf, dir, importPath))>> \o rest
                  ELSE rest
             ELSE <<normalize(pf, join(pf, dir, appendTs(importPath)))>> \o rest

\* A string as JSON.stringify writes it: quoted, every backslash doubled.
jsonString(p) == [quoted |-> [p EXCEPT !.sep = IF @ = "\\" THEN "\\\\" ELSE @]]

\* JSON.stringify(dependencyObject, null, 2): the members in insertion
\* order, each a name and an array of strings.
stringify(m) ==
    [i \in 1..Len(m) |->
        [name |-> jsonString(m[i].key),
         elements |-> [j \in 1..Len(m[i].deps) |-> jsonString(m[i].deps[j])]]]

\* The files of the model, as glob lists them; the second is the tool's own.
AllPaths ==
    << <<Seg("src", ""), Seg("app", ".ts")>>,
       <<Seg("src", ""), Seg("core", ""), Seg("parser", ".ts")>>,
       <<Seg("src", ""), Seg("core", ""), Seg("server", ".ts")>>,
       <<Seg("src", ""), Seg("core", ""), Seg("utils", ".ts")>> >>

\* toolFiles, as far as the tree has them.
toolFiles == {AllPaths[2]}

ImportFrom(dot, segs) ==
    <<Word("import"), Word("ws"), Word("code"), Word("ws"), Word("from"), Word("ws"),
      Quoted(dot, segs), Word("code"), Word("ws")>>

\* Source texts of the model:
\*   const x = 1;
\*   const secret = '...';
\*   import { x } from './utils';
\*   import { x } from './utils';  const secret = '...';
\*   import './styles.css';  import a from './utils.js';
\*       import b from './utils.js';  import c from './data.json';
\*   import a from './../app';  import r from 'react';
\*       import B from './Button.tsx';  import s from './user.service';
Contents ==
    { <<Word("code")>>,
      <<Word("secret")>>,
      ImportFrom(TRUE, <<Seg("utils", "")>>),
      ImportFrom(TRUE, <<Seg("utils", "")>>) \o <<Word("secret")>>,
      <<Word("import"), Word("ws"), Quoted(TRUE, <<Seg("styles", ".css")>>),
        Word("code"), Word("ws")>>
          \o ImportFrom(TRUE, <<Seg("utils", ".js")>>)
          \o ImportFrom(TRUE, <<Seg("utils", ".js")>>)
          \o ImportFrom(TRUE, <<Seg("data", ".json")>>),
      ImportFrom(TRUE, <<ParentDir, Seg("app", "")>>)
          \o ImportFrom(FALSE, <<Seg("react", "")>>)
          \o ImportFrom(TRUE, <<Seg("Button", ".tsx")>>)
          \o ImportFrom(TRUE, <<Seg("user", ".service")>>) }

\* What a file can be: unreadable, or readable with one of the texts.
FileStates ==
    {[readable |-> FALSE, content |-> <<>>]}
        \cup {[readable |-> TRUE, content |-> c] : c \in Contents}

\* The trees: the tool's own file and up to MaxFiles of the others.
Trees ==
    UNION { { LET present == SelectSeq(<<1, 2, 3, 4>>, LAMBDA i : i \in S \cup {2})
              IN  [k \in 1..Len(present) |->
                      [path |-> AllPaths[present[k]],
                       readable |-> IF present[k] = 2 THEN TRUE
                                    ELSE f[present[k]].readable,
                       content |-> IF present[k] = 2 THEN <<Word("code")>>
                                   ELSE f[present[k]].content]] :
              f \in [S -> FileStates] } :
            S \in {T \in SUBSET {1, 3, 4} : Cardinality(T) <= MaxFiles} }

treeFile(file) == tree[CHOOSE k \in 1..Len(tree) : tree[k].path = file]

ParserInit ==
    /\ ServerIdle
    /\ HeurIdle
    /\ platform \in {"posix", "win32"}
    /\ tree \in Trees
    /\ pPc = "glob"
    /\ analysisFiles = <<>>
    /\ fileIdx = 0
    /\ depMap = <<>>
    /\ warnings = <<>>
    /\ sentMessage = null
    /\ prevRun = null

\* A build that goes on with the map of the build before, as it would with
\* a map kept at module level.
GlobKeepsMap ==
    /\ pPc = "glob"
    /\ LET files == SelectSeq([k \in 1..Len(tree) |-> tree[k].path],
                              LAMBDA f : f[Len(f)].ext \in SourceExtensions)
       IN  analysisFiles' = SelectSeq(files, LAMBDA f : f \notin toolFiles)
    /\ depMap' = IF prevRun = null THEN <<>> ELSE prevRun[1].graph
    /\ fileIdx' = 1
    /\ pPc' = "loop"
    /\ UNCHANGED <<platform, tree, warnings, sentMessage, prevRun, serverVars, heurVars>>

\* parseDependencies from its entry to the loop: the new Map, the glob over
\* src/**/*.{ts,tsx,js,jsx} and the filter that drops the tool's own files.
Glob ==
    /\ pPc = "glob"
    /\ LET files == SelectSeq([k \in 1..Len(tree) |-> tree[k].path],
                              LAMBDA f : f[Len(f)].ext \in SourceExtensions)
       IN  analysisFiles' = SelectSeq(files, LAMBDA f : f \notin toolFiles)
    /\ depMap' = <<>>
    /\ fileIdx' = 1
    /\ pPc' = "loop"
    /\ UNCHANGED <<platform, tree, warnings, sentMessage, prevRun, serverVars, heurVars>>

\* One turn of the for loop whose readFile succeeds: the imports are
\* extracted and resolved and the file gets its entry.
ReadFile ==
    /\ pPc = "loop"
    /\ fileIdx <= Len(analysisFiles)
    /\ treeFile(analysisFiles[fileIdx]).readable
    /\ LET file == analysisFiles[fileIdx]
           relativeFilePath == relative(platform, file)
           content == treeFile(file).content
           dependencies == resolveImports(platform, relativeFilePath, execAll(content, 1))
       IN  depMap' = mapSet(depMap, replaceBackslashes(relativeFilePath), dependencies)
    /\ fileIdx' = fileIdx + 1
    /\ UNCHANGED <<platform, tree, pPc, analysisFiles, warnings, sentMessage, prevRun,
                   serverVars, heurVars>>

\* A read failure that ends the loop, as a try around the whole loop would.
ReadFailsAborts ==
    /\ pPc = "loop"
    /\ fileIdx <= Len(analysisFiles)
    /\ ~treeFile(analysisFiles[fileIdx]).readable
    /\ warnings' = Append(warnings, relative(platform, analysisFiles[fileIdx]))
    /\ pPc' = "done"
    /\ UNCHANGED <<platform, tree, analysisFiles, fileIdx, depMap, sentMessage, prevRun,
                   serverVars, heurVars>>

\* One turn of the for loop whose readFile rejects: the catch logs the file
\* and the loop goes on.
ReadFails ==
    /\ pPc = "loop"
    /\ fileIdx <= Len(analysisFiles)
    /\ ~treeFile(analysisFiles[fileIdx]).readable
    /\ warnings' = Append(warnings, relative(platform, analysisFiles[fileIdx]))
    /\ fileIdx' = fileIdx + 1
    /\ UNCHANGED <<platform, tree, pPc, analysisFiles, depMap, sentMessage, prevRun,
                   serverVars, heurVars>>

\* return dependencyMap
Return ==
    /\ pPc = "loop"
    /\ fileIdx > Len(analysisFiles)
    /\ pPc' = "done"
    /\ UNCHANGED <<platform, tree, analysisFiles, fileIdx, depMap, warnings, sentMessage,
                   prevRun, serverVars, heurVars>>

\* A message that carries the source texts besides the graph.
SendWithSources ==
    /\ pPc = "done"
    /\ sentMessage' = << [history |-> "systemPrompt", text |-> stringify(depMap),
                         sources |-> [k \in 1..Len(tree) |-> tree[k].content]] >>
    /\ pPc' = "sent"
    /\ UNCHANGED <<platform, tree, analysisFiles, fileIdx, depMap, warnings, prevRun,
                   serverVars, heurVars>>

\* analyzeDependencies with the key set, up to chat.sendMessage: the chat
\* starts with the fixed prompt and is sent the serialized graph.
Send ==
    /\ pPc = "done"
    /\ sentMessage' = << [history |-> "systemPrompt", text |-> stringify(depMap)] >>
    /\ pPc' = "sent"
    /\ UNCHANGED <<platform, tree, analysisFiles, fileIdx, depMap, warnings, prevRun,
                   serverVars, heurVars>>

\* Between two runs one file of the tree changes: its text, or whether it
\* can be read.  The next run starts; the one before is remembered.
Edit(k, to) ==
    /\ pPc = "sent"
    /\ prevRun = null
    /\ k \in 1..Len(tree)
    /\ tree[k].path \notin toolFiles
    /\ to # [readable |-> tree[k].readable, content |-> tree[k].content]
    /\ tree' = [tree EXCEPT ![k] = [path |-> tree[k].path, readable |-> to.readable,
                                    content |-> to.content]]
    /\ prevRun' = << [graph |-> depMap, message |-> sentMessage[1]] >>
    /\ pPc' = "glob"
    /\ analysisFiles' = <<>>
    /\ fileIdx' = 0
    /\ depMap' = <<>>
    /\ warnings' = <<>>
    /\ sentMessage' = null
    /\ UNCHANGED <<platform, serverVars, heurVars>>

ParserNext ==
    \/ Glob
    \/ ReadFile
    \/ ReadFails
    \/ Return
    \/ Send
    \/ \E k \in 1..(MaxFiles + 1), to \in FileStates : Edit(k, to)

ParserSpec == ParserInit /\ [][ParserNext]_vars


(***************************************************************************)
(* Properties of the orchestrator.                                         *)
(***************************************************************************)
\* The step lets a GET request in: its handler has run to its return.
GetArrives == Len(req') = Len(req) + 1 /\ req'[Len(req')].kind = "GET"

\* The newest report made before caller c arrived has this timestamp.
seenAt(c) == IF c.seen = null THEN 0 ELSE c.seen[1].timestamp

\* C1: single-flight. At most one pipeline is in execution at any time, and
\* no step taken while isAnalysisRunning is true starts a graph build.
C1_SingleFlight ==
    [][ /\ Cardinality(InPipeline') <= 1
        /\ isAnalysisRunning => parseCalls' = parseCalls ]_vars

\* A run is in flight while a refresh polls and a GET was answered 503.
C1_Witness ==
    /\ isAnalysisRunning
    /\ Cardinality(InPipeline) = 1
    /\ \E i \in Polling : req[i].inFlight # {}
    /\ \E i \in 1..Len(req) : req[i].resp.status = 503

\* C2: after a run that failed the cache is what it was when that run
\* started, and a GET that comes then is answered 200 with that report when
\* there was one.
C2_FailedRunKeepsCache ==
    [][ /\ lastRun'.outcome = "failed" => cachedAnalysis' = lastRun'.before
        /\ (GetArrives /\ lastRun.outcome = "failed" /\ lastRun.before # null)
              => /\ req'[Len(req')].resp.status = 200
                 /\ req'[Len(req')].resp.data = lastRun.before ]_vars

\* A refresh failed over a cached report and a later GET got that report.
C2_Witness ==
    /\ lastRun.outcome = "failed"
    /\ lastRun.before # null
    /\ \E i \in 1..Len(req) :
          /\ i > lastRun.by
          /\ req[i].kind = "GET"
          /\ req[i].resp.status = 200
          /\ req[i].resp.data = lastRun.before

\* GET j came, while nothing was cached, during the run that GET i started.
ConcurrentGets(i, j) ==
    /\ req[i].kind = "GET" /\ req[j].kind = "GET"
    /\ i \in req[j].inFlight
    /\ req[j].seen = null

\* C3 as stated: of two concurrent GETs without a cached report, the second
\* receives the report the first receives, and one graph build serves both.
C3_BothGetTheReport ==
    \A i, j \in 1..Len(req) :
        (ConcurrentGets(i, j) /\ req[i].settled = "resolved")
            => /\ req[j].resp.status = 200
               /\ req[j].resp.data = req[i].resp.data
               /\ req[j].builds = req[i].builds

\* C3 amended: the first GET starts the only graph build and is answered
\* with that run's report or with a 500; the second is answered 503 at once,
\* starts no build and never gets the report.
C3_SecondGetIsPending ==
    \A i, j \in 1..Len(req) :
        ConcurrentGets(i, j)
            => /\ req[j].pc = "done"
               /\ req[j].resp.status = 503
               /\ req[j].resp.data = null
               /\ req[j].builds = req[i].builds
               /\ req[i].settled = "resolved"
                     => req[i].resp.status = 200 /\ req[i].resp.data = req[i].value
               /\ req[i].settled = "rejected" => req[i].resp.status = 500

\* Two concurrent GETs, the run of the first has delivered its report.
C3_Witness ==
    \E i, j \in 1..Len(req) :
        /\ ConcurrentGets(i, j)
        /\ req[i].settled = "resolved"
        /\ req[i].resp.data # null

\* C4 as stated, for a process that stays alive: every invocation of
\* runFullAnalysis that is pending eventually settles.
C4_EveryCallSettles ==
    \A i \in 1..(MaxRequests + 1) :
        (i <= Len(req) /\ req[i].settled = "pending")
            ~> (crashed \/ (i <= Len(req) /\ req[i].settled # "pending"))

\* C5: a polling caller resolves only in a step in which no run is in
\* flight, with the report cached in that step, which is the newest report
\* made so far.
C5_PollerGetsCurrentCache ==
    [][ \A i \in Polling :
            req'[i].pc = "done"
                => /\ ~isAnalysisRunning
                   /\ InPipeline = {}
                   /\ cachedAnalysis # null
                   /\ req'[i].value = cachedAnalysis
                   /\ cachedAnalysis' = cachedAnalysis
                   /\ req'[i].value[1].timestamp = now ]_vars

\* A caller that arrived during a run resolved with a report made after it
\* arrived.
C5_Witness ==
    \E i \in 1..Len(req) :
        /\ req[i].kind = "POST"
        /\ req[i].inFlight # {}
        /\ req[i].settled = "resolved"
        /\ req[i].value # req[i].seen

\* C6 as stated: a refresh answered 200 carries a report made after the
\* request arrived.
C6_RefreshIsFresh ==
    \A i \in 1..Len(req) :
        (req[i].kind = "POST" /\ req[i].resp.status = 200)
            => /\ req[i].resp.data # null
               /\ req[i].resp.data[1].timestamp > seenAt(req[i])

\* C7: a run that resolves leaves in the cache exactly the report it hands
\* to its caller, a new one whatever was cached before, and no other step
\* changes the cache.
C7_LastWriterWins ==
    [][ /\ \A i \in InPipeline :
              req'[i].settled = "resolved"
                  => /\ req'[i].value # null
                     /\ cachedAnalysis' = req'[i].value
                     /\ cachedAnalysis' # cachedAnalysis
                     /\ req'[i].kind # "STARTUP" => req'[i].resp.data = cachedAnalysis'
        /\ cachedAnalysis' # cachedAnalysis
              => \E i \in InPipeline : req'[i].settled = "resolved" ]_vars

\* A successful run has replaced a report that was cached when it started.
C7_Witness ==
    /\ lastRun.outcome = "ok"
    /\ lastRun.before # null
    /\ cachedAnalysis # lastRun.before
    /\ cachedAnalysis = req[lastRun.by].value

\* C8: the three behaviours of GET. With a cached report: 200 with it, no
\* run. Nothing cached and no run in flight: exactly one run starts, and it
\* ends in a 200 with its report or in a 500. Nothing cached and a run in
\* flight: 503, no run.
C8_GetBehaviours ==
    [][ /\ GetArrives =>
              LET g == req'[Len(req')] IN
              /\ cachedAnalysis # null
                    => /\ g.pc = "done" /\ g.resp.status = 200
                       /\ g.resp.data = cachedAnalysis
                       /\ parseCalls' = parseCalls
                       /\ isAnalysisRunning' = isAnalysisRunning
              /\ (cachedAnalysis = null /\ ~isAnalysisRunning)
                    => /\ g.pc = "parsing" /\ g.resp.status = 0
                       /\ parseCalls' = parseCalls + 1
                       /\ isAnalysisRunning'
              /\ (cachedAnalysis = null /\ isAnalysisRunning)
                    => /\ g.pc = "done" /\ g.resp.status = 503
                       /\ g.resp.data = null
                       /\ parseCalls' = parseCalls
        /\ \A i \in InPipeline :
              (req[i].kind = "GET" /\ req'[i].pc = "done")
                  => \/ /\ req'[i].resp.status = 200
                        /\ req'[i].resp.data = cachedAnalysis'
                        /\ req'[i].resp.data # req[i].seen
                     \/ /\ req'[i].resp.status = 500
                        /\ req'[i].resp.data = null ]_vars

\* One GET ran the analysis and got its report, a later one got it from the
\* cache.
C8_Witness ==
    \E i, j \in 1..Len(req) :
        /\ req[i].kind = "GET" /\ req[i].settled = "resolved"
        /\ req[j].kind = "GET" /\ req[j].settled = "none"
        /\ req[j].resp.status = 200
        /\ req[j].resp.data = req[i].value

\* C9 as stated: no failed run takes the process down, and the caller of a
\* failed run holds the failure.
C9_NoCrash ==
    /\ ~crashed
    /\ \A i \in 1..Len(req) :
          (req[i].settled = "rejected" /\ req[i].kind # "STARTUP")
              => req[i].resp.status = 500 /\ req[i].resp.error # ""

ReportsHeld ==
    {cachedAnalysis} \cup {req[i].value : i \in 1..Len(req)}
                     \cup {req[i].resp.data : i \in 1..Len(req)}

\* C11: a run whose external analyzer returned null fails. No report held by
\* the cache or handed to a caller has a null external result, and without
\* an API key no run ever succeeds.
C11_AnalyzerFailureFailsRun ==
    /\ \A r \in ReportsHeld : r # null => r[1].llmAnalysis # null
    /\ ~apiKey => /\ cachedAnalysis = null
                  /\ \A i \in 1..Len(req) : req[i].settled # "resolved"
    /\ lastRun.error = "LLM analysis failed."
          => /\ lastRun.outcome = "failed"
             /\ req[lastRun.by].settled = "rejected"
             /\ req[lastRun.by].value = null

\* The analyzer returned null to a refresh that ran over a non-empty graph:
\* the refresh was answered 500 and nothing is cached.
C11_Witness ==
    /\ lastRun.error = "LLM analysis failed."
    /\ lastRun.graph # << <<>> >> /\ lastRun.graph # <<>>
    /\ req[lastRun.by].kind = "POST"
    /\ req[lastRun.by].resp.status = 500
    /\ req[lastRun.by].resp.error = "LLM analysis failed."
    /\ cachedAnalysis = null


(***************************************************************************)
(* Properties of the heuristic analyzer.                                   *)
(***************************************************************************)
\* The call of findCircularDependencies has returned.
CyclesReturned == hPc \in {"hubs", "done"}

\* The simple directed cycles of a graph, each as the sequence of its
\* distinct nodes from every starting point.  A node on a cycle has an
\* outgoing edge, so it is a key.
SimpleCycles(m) ==
    { c \in UNION { [1..k -> Range(mapKeys(m))] : k \in 1..Len(m) } :
        /\ \A i, j \in 1..Len(c) : i # j => c[i] # c[j]
        /\ \A i \in 1..Len(c) : c[(i % Len(c)) + 1] \in Range(mapGet(m, c[i])) }

\* The closed paths that say the cycle c: c from each of its nodes, ending
\* where it began.
Rotations(c) ==
    { [i \in 1..(Len(c) + 1) |-> c[((i - 1 + r) % Len(c)) + 1]] : r \in 0..(Len(c) - 1) }

\* C12: for every simple directed cycle of the graph, the list returned by
\* findCircularDependencies has a record whose path is that cycle or one of
\* its rotations.
C12_FindsAllCycles ==
    CyclesReturned =>
        \A c \in SimpleCycles(hInput) :
            \E r \in Rotations(c) : [path |-> r] \in Range(hCycles)

\* C13: for a graph without a directed cycle, dangling targets and duplicate
\* edges included, findCircularDependencies returns the empty list.
C13_AcyclicGivesNoCycle ==
    (CyclesReturned /\ SimpleCycles(hInput) = {}) => hCycles = <<>>

\* An acyclic graph with a duplicate edge, a shared target and a dangling
\* target has been analyzed.
C13_Witness ==
    /\ CyclesReturned
    /\ hInput = << [key |-> "A", deps |-> <<"B", "B", "C">>],
                   [key |-> "B", deps |-> <<"X">>] >>
    /\ SimpleCycles(hInput) = {}
    /\ hCycles = <<>>

TwoNodeCycle ==
    << [key |-> "A", deps |-> <<"B">>], [key |-> "B", deps |-> <<"A">>] >>

\* C14: for the graph A -> B, B -> A with A inserted first,
\* findCircularDependencies returns exactly one record, with path [A, B, A].
C14_TwoNodeCycle ==
    (CyclesReturned /\ hInput = TwoNodeCycle)
        => hCycles = << [path |-> <<"A", "B", "A">>] >>

C14_Witness ==
    /\ hPc = "done"
    /\ hInput = TwoNodeCycle
    /\ Len(hCycles) = 1
    /\ hCycles[1].path = <<"A", "B", "A">>

\* The edges of a graph that point to n, each as <<entry, position>>.
edgesTo(m, n) ==
    { p \in (1..Len(m)) \X (1..MaxEdges) :
        p[2] <= Len(m[p[1]].deps) /\ m[p[1]].deps[p[2]] = n }

inDegree(m, n) == Cardinality(edgesTo(m, n))

\* C15: for every graph and every threshold >= 1, findTightlyCoupledModules
\* returns one record for each node with at least threshold incoming edges,
\* duplicates counted, carrying that many importers, and no other record.
C15_HubsAreTheNodesAtThreshold ==
    hPc = "done" =>
        \A t \in 1..MaxThreshold :
            /\ \A n \in GraphTargets :
                  Cardinality({i \in 1..Len(hHubs[t]) : hHubs[t][i].module = n})
                      = IF inDegree(hInput, n) >= t THEN 1 ELSE 0
            /\ \A i \in 1..Len(hHubs[t]) :
                  /\ hHubs[t][i].module \in GraphTargets
                  /\ Len(hHubs[t][i].importedBy) = inDegree(hInput, hHubs[t][i].module)

\* The graph {A -> X, A -> Y, B -> X, C -> X}: threshold 3 gives X alone,
\* with its three importers, and threshold 4 gives nothing.
C15_Witness ==
    /\ hPc = "done"
    /\ hInput = << [key |-> "A", deps |-> <<"X", "Y">>],
                   [key |-> "B", deps |-> <<"X">>],
                   [key |-> "C", deps |-> <<"X">>] >>
    /\ hHubs[3] = << [module |-> "X", importedBy |-> <<"A", "B", "C">>] >>
    /\ hHubs[4] = <<>>

\* Where the first edge to n stands in the iteration over the graph.
firstEdge(m, n) ==
    LET at(p) == p[1] * (MaxEdges + 1) + p[2]
    IN  CHOOSE x \in {at(p) : p \in edgesTo(m, n)} :
            \A y \in {at(p) : p \in edgesTo(m, n)} : x <= y

\* C16: the hub list is in non-increasing order of importer count, and hubs
\* with equal counts stand in the order of their first incoming edge.
C16_HubsSortedStable ==
    hPc = "done" =>
        \A t \in 1..MaxThreshold :
            \A i, j \in 1..Len(hHubs[t]) :
                i < j =>
                    /\ Len(hHubs[t][i].importedBy) >= Len(hHubs[t][j].importedBy)
                    /\ Len(hHubs[t][i].importedBy) = Len(hHubs[t][j].importedBy)
                          => firstEdge(hInput, hHubs[t][i].module)
                                 < firstEdge(hInput, hHubs[t][j].module)

\* The sort moved X to the front and left the tie of Y and B as it was.
C16_Witness ==
    /\ hPc = "done"
    /\ hInput = << [key |-> "A", deps |-> <<"Y", "B", "X">>],
                   [key |-> "B", deps |-> <<"X">>] >>
    /\ [i \in 1..Len(hHubs[1]) |-> hHubs[1][i].module] = <<"X", "Y", "B">>


(***************************************************************************)
(* Properties of the parser and of the message to the external analyzer.   *)
(***************************************************************************)
\* C17: the message sent to the external analyzer is a function of the
\* dependency graph alone: a run whose graph equals the graph of the run
\* before, over a tree whose file contents differ, sends the same message.
C17_MessageIsFunctionOfGraph ==
    (pPc = "sent" /\ prevRun # null /\ prevRun[1].graph = depMap)
        => sentMessage[1] = prevRun[1].message

\* Two runs have sent the same graph, with an edge in it, although a text
\* that now holds the word secret was changed in between.
C17_Witness ==
    /\ pPc = "sent"
    /\ prevRun # null
    /\ prevRun[1].graph = depMap
    /\ \E e \in 1..Len(depMap) : depMap[e].deps # <<>>
    /\ \E k \in 1..Len(tree) : tree[k].readable /\ Word("secret") \in Range(tree[k].content)
    /\ sentMessage[1] = prevRun[1].message

\* The key a file of the tree is recorded under.
keyOf(file) == replaceBackslashes(relative(platform, file))

\* C18: on every path convention each resolved edge target is written with
\* forward slashes, so an edge to a file of the tree is string-equal to the
\* key of that file.
C18_EdgesUseForwardSlashes ==
    \A e \in 1..Len(depMap) : \A d \in 1..Len(depMap[e].deps) :
        /\ depMap[e].deps[d].sep = "/"
        /\ \A k \in 1..Len(tree) :
              depMap[e].deps[d].segs = tree[k].path
                  => depMap[e].deps[d] = keyOf(tree[k].path)

\* The targets extracted from the file recorded under the key of entry e.
targetsOf(e) ==
    execAll(tree[CHOOSE k \in 1..Len(tree) : keyOf(tree[k].path) = depMap[e].key].content, 1)

hasOtherExtension(importPath) ==
    extname(importPath) # "" /\ extname(importPath) \notin SourceExtensions

\* C19: an extracted target with extension .ts, .tsx, .js or .jsx gives one
\* edge with that extension, a target with another extension gives no edge,
\* a target without extension gives one edge with .ts appended; a file has
\* as many edges as extracted targets less those with another extension.
C19_ExtensionsDecideEdges ==
    \A e \in 1..Len(depMap) :
        LET targets == targetsOf(e)
            kept == SelectSeq(targets, LAMBDA t : ~hasOtherExtension(t))
            other == {i \in 1..Len(targets) : hasOtherExtension(targets[i])}
            deps == depMap[e].deps
        IN  /\ Len(deps) = Len(targets) - Cardinality(other)
            /\ Len(deps) = Len(kept)
            /\ \A i \in 1..Len(kept) :
                  LET target == kept[i].segs[Len(kept[i].segs)]
                      edge == deps[i].segs[Len(deps[i].segs)]
                  IN  /\ edge.base = target.base
                      /\ edge.ext = IF target.ext = "" THEN ".ts" ELSE target.ext

\* A file with a target without extension, one with .tsx and one with
\* another extension has got its two edges.
C19_Witness ==
    \E e \in 1..Len(depMap) :
        /\ \E i \in 1..Len(targetsOf(e)) : extname(targetsOf(e)[i]) = ""
        /\ \E i \in 1..Len(targetsOf(e)) : extname(targetsOf(e)[i]) = ".tsx"
        /\ \E i \in 1..Len(targetsOf(e)) : hasOtherExtension(targetsOf(e)[i])
        /\ Len(targetsOf(e)) = 3
        /\ Len(depMap[e].deps) = 2
        /\ depMap[e].deps[1].segs[Len(depMap[e].deps[1].segs)] = Seg("app", ".ts")
        /\ depMap[e].deps[2].segs[Len(depMap[e].deps[2].segs)] = Seg("Button", ".tsx")

\* The first n files of the loop that can be read, resp. cannot.
readableAmong(n) ==
    SelectSeq(SubSeq(analysisFiles, 1, n), LAMBDA f : treeFile(f).readable)

unreadableAmong(n) ==
    SelectSeq(SubSeq(analysisFiles, 1, n), LAMBDA f : ~treeFile(f).readable)

\* C20: a file whose read fails gets no key and is reported, every
\* readable file gets its key, and the loop goes through all the files
\* before the build returns.
C20_UnreadableFilesSkipped ==
    pPc \in {"loop", "done", "sent"} =>
        /\ pPc # "loop" => fileIdx = Len(analysisFiles) + 1
        /\ mapKeys(depMap)
              = [i \in 1..Len(readableAmong(fileIdx - 1)) |->
                    keyOf(readableAmong(fileIdx - 1)[i])]
        /\ warnings
              = [i \in 1..Len(unreadableAmong(fileIdx - 1)) |->
                    relative(platform, unreadableAmong(fileIdx - 1)[i])]

\* The build has returned; its first file could not be read, its second
\* has its key and an edge.
C20_Witness ==
    /\ pPc = "done"
    /\ Len(analysisFiles) = 2
    /\ ~treeFile(analysisFiles[1]).readable
    /\ Len(warnings) = 1
    /\ Len(depMap) = 1
    /\ depMap[1].key = keyOf(analysisFiles[2])
    /\ depMap[1].deps # <<>>

\* The text of the file recorded under the key of entry e.
contentOf(e) ==
    tree[CHOOSE k \in 1..Len(tree) : keyOf(tree[k].path) = depMap[e].key].content

\* The last position before k that holds no whitespace, 0 when there is none.
RECURSIVE beforeWhitespace(_, _)
beforeWhitespace(content, k) ==
    IF k >= 1 /\ content[k].t = "ws" THEN beforeWhitespace(content, k - 1) ELSE k

\* The specifiers of the import statements of a text that begin with "./",
\* in source order: the quoted strings that stand, whitespace apart, right
\* after the word import (a side-effect import) or after the word from.
statementTargets(content) ==
    LET isTarget(k) ==
            /\ content[k].t = "str"
            /\ content[k].spec.dot
            /\ beforeWhitespace(content, k - 1) >= 1
            /\ content[beforeWhitespace(content, k - 1)].t \in {"import", "from"}
        at == SelectSeq([k \in 1..Len(content) |-> k], isTarget)
    IN  [i \in 1..Len(at) |-> content[at[i]].spec]

\* C21: for every file read, the extractor returns, in source order, the
\* target of every import statement whose specifier begins with "./",
\* side-effect imports and imports with a binding clause alike, and nothing
\* else.
C21_ExtractsEveryRelativeImport ==
    \A e \in 1..Len(depMap) : targetsOf(e) = statementTargets(contentOf(e))

\* a -> b is an edge of the graph.
isEdge(m, a, b) == b \in Range(mapGet(m, a))

\* C22: every cycle record is a simple closed walk of the graph: its path
\* has at least two elements, ends where it begins, every consecutive pair
\* is an edge, and the elements before the last are pairwise distinct.
C22_RecordsAreSimpleClosedWalks ==
    CyclesReturned =>
        \A r \in 1..Len(hCycles) :
            LET path == hCycles[r].path IN
            /\ Len(path) >= 2
            /\ path[1] = path[Len(path)]
            /\ \A i \in 1..(Len(path) - 1) : isEdge(hInput, path[i], path[i + 1])
            /\ \A i, j \in 1..(Len(path) - 1) : i # j => path[i] # path[j]

\* A self-import and a two-file cycle entered from outside have both been
\* recorded.
C22_Witness ==
    /\ CyclesReturned
    /\ hInput = << [key |-> "A", deps |-> <<"A", "B">>],
                   [key |-> "B", deps |-> <<"C">>],
                   [key |-> "C", deps |-> <<"B">>] >>
    /\ hCycles = << [path |-> <<"A", "A">>], [path |-> <<"B", "C", "B">>] >>

\* A depth-first traversal that only keeps track of what it has seen: the
\* call for a node, entered with the nodes seen before it, gives back the
\* nodes seen after it and, for every call made, the node, what was seen
\* before and what after.
RECURSIVE explore(_, _, _)
RECURSIVE exploreEach(_, _, _, _)
exploreEach(m, nodes, i, acc) ==
    IF i > Len(nodes) THEN acc
    ELSE IF nodes[i] \in acc.seen THEN exploreEach(m, nodes, i + 1, acc)
    ELSE exploreEach(m, nodes, i + 1, explore(m, nodes[i], acc))

explore(m, node, acc) ==
    LET inner == exploreEach(m, mapGet(m, node), 1, [acc EXCEPT !.seen = @ \cup {node}])
    IN  [inner EXCEPT !.calls = @ \cup {[node |-> node, before |-> acc.seen,
                                         after |-> inner.seen]}]

seenByCall(m) == exploreEach(m, allNodes(m), 1, [seen |-> {}, calls |-> {}])

\* The nodes first seen during the call for v, v among them: v is on the
\* stack exactly while these are being entered.
enteredDuring(m, v) ==
    UNION {c.after \ c.before : c \in {d \in seenByCall(m).calls : d.node = v}}

\* The edge occurrences, as <<entry, position>>, whose target is on the
\* stack when the traversal examines them.
backEdges(m) ==
    { p \in (1..Len(m)) \X (1..MaxEdges) :
        /\ p[2] <= Len(m[p[1]].deps)
        /\ m[p[1]].key \in enteredDuring(m, m[p[1]].deps[p[2]]) }

\* C23: the list has one record per edge occurrence whose target is on the
\* DFS stack when the edge is examined: n occurrences of the same back edge
\* give n equal records, a self-import gives [A, A], nothing is removed.
C23_OneRecordPerBackEdge ==
    CyclesReturned =>
        /\ Len(hCycles) = Cardinality(backEdges(hInput))
        /\ \A p \in backEdges(hInput) :
              LET from == hInput[p[1]].key
                  to == hInput[p[1]].deps[p[2]]
                  same == {q \in backEdges(hInput) :
                              hInput[q[1]].key = from /\ hInput[q[1]].deps[q[2]] = to}
                  closing == {r \in 1..Len(hCycles) :
                                 /\ hCycles[r].path[1] = to
                                 /\ hCycles[r].path[Len(hCycles[r].path) - 1] = from}
              IN  /\ Cardinality(closing) = Cardinality(same)
                  /\ from = to => \A r \in closing : hCycles[r].path = <<from, from>>

\* A self-import and a back edge written twice: three records, two equal.
C23_Witness ==
    /\ CyclesReturned
    /\ hInput = << [key |-> "A", deps |-> <<"A", "B">>],
                   [key |-> "B", deps |-> <<"A", "A">>] >>
    /\ Cardinality(backEdges(hInput)) = 3
    /\ hCycles = << [path |-> <<"A", "A">>], [path |-> <<"A", "B", "A">>],
                    [path |-> <<"A", "B", "A">>] >>

\* C24: when the graph has a directed cycle, a self-loop included, the list
\* returned by findCircularDependencies is not empty, in whatever order the
\* edges are listed.
C24_CyclicGivesSomeCycle ==
    (CyclesReturned /\ SimpleCycles(hInput) # {}) => hCycles # <<>>

\* The only cycle cannot be reached from the first node and is found from
\* a later root.
C24_Witness ==
    /\ CyclesReturned
    /\ hInput = << [key |-> "A", deps |-> <<"X">>],
                   [key |-> "B", deps |-> <<"C">>],
                   [key |-> "C", deps |-> <<"B">>] >>
    /\ SimpleCycles(hInput) # {}
    /\ hCycles = << [path |-> <<"B", "C", "B">>] >>

\* The full node set: the keys and every target of an edge.
nodesOf(m) == Range(mapKeys(m)) \cup Range(allDeps(m))

\* C25: when findCircularDependencies has returned, detectCycle has been
\* entered exactly once for every key and every edge target, dangling ones
\* included, so the calls are as many as the nodes and the traversal is
\* finite; recursionStack and path are empty and visited is the full node
\* set.
C25_TraversalVisitsEachNodeOnce ==
    CyclesReturned =>
        /\ \A n \in nodesOf(hInput) :
              Cardinality({i \in 1..Len(hDfs.calls) : hDfs.calls[i] = n}) = 1
        /\ Len(hDfs.calls) = Cardinality(nodesOf(hInput))
        /\ hDfs.recursionStack = {}
        /\ hDfs.path = <<>>
        /\ hDfs.visited = nodesOf(hInput)

\* A graph with a cycle, a dangling target and a file that imports into the
\* cycle: four calls, in the order of the traversal.
C25_Witness ==
    /\ CyclesReturned
    /\ hInput = << [key |-> "A", deps |-> <<"B", "X">>],
                   [key |-> "B", deps |-> <<"A">>],
                   [key |-> "C", deps |-> <<"B">>] >>
    /\ hDfs.calls = <<"A", "B", "X", "C">>
    /\ hDfs.visited = {"A", "B", "C", "X"}
    /\ hDfs.recursionStack = {}
    /\ hDfs.path = <<>>

\* The edges of a graph in iteration order, each as <<importer, imported>>.
RECURSIVE edgeList(_)
edgeList(m) ==
    IF m = <<>> THEN <<>>
    ELSE [i \in 1..Len(Head(m).deps) |-> <<Head(m).key, Head(m).deps[i]>>]
             \o edgeList(Tail(m))

\* The importers of n, one per incoming edge, in iteration order.
importersOf(m, n) ==
    LET incoming == SelectSeq(edgeList(m), LAMBDA edge : edge[2] = n)
    IN  [i \in 1..Len(incoming) |-> incoming[i][1]]

RECURSIVE sumOfLengths(_)
sumOfLengths(hubs) ==
    IF hubs = <<>> THEN 0 ELSE Len(Head(hubs).importedBy) + sumOfLengths(Tail(hubs))

\* C26: the importedBy list of every hub record has one entry per incoming
\* edge, in graph iteration order, duplicates kept; with threshold 1 every
\* entry of the reverse map is a record, and the lengths of their lists add
\* up to the number of edges of the graph.
C26_ImportersPerEdge ==
    hPc = "done" =>
        /\ \A t \in 1..MaxThreshold : \A i \in 1..Len(hHubs[t]) :
              hHubs[t][i].importedBy = importersOf(hInput, hHubs[t][i].module)
        /\ sumOfLengths(hHubs[1]) = Len(edgeList(hInput))

\* X is imported twice by A and once by B, A once by C: four edges, four
\* importers.
C26_Witness ==
    /\ hPc = "done"
    /\ hInput = << [key |-> "A", deps |-> <<"X", "X">>],
                   [key |-> "B", deps |-> <<"X">>],
                   [key |-> "C", deps |-> <<"A">>] >>
    /\ hHubs[1] = << [module |-> "X", importedBy |-> <<"A", "A", "B">>],
                     [module |-> "A", importedBy |-> <<"C">>] >>
    /\ sumOfLengths(hHubs[1]) = 4


(***************************************************************************)
(* Properties of the cache slot and of the flag.                           *)
(***************************************************************************)
\* The step stores a report: the slot changes.
StoresReport == cachedAnalysis' # cachedAnalysis

\* C27: the slot is empty or holds a complete report of one successful run.
\* A report has a timestamp and a non-null external result; it is stored in
\* the step in which a run that had called both analyzers on its graph gets
\* the external answer, and its heuristic part is the heuristic analysis of
\* that run's graph.
C27_CachedReportIsComplete ==
    /\ [](cachedAnalysis # null =>
            /\ cachedAnalysis[1].timestamp \in 1..now
            /\ cachedAnalysis[1].llmAnalysis # null
            /\ \E g \in ServerGraphs \ {<<>>} :
                  cachedAnalysis[1].heuristicAnalysis = analyzeHeuristically(g))
    /\ [][StoresReport =>
            \E i \in 1..Len(req) :
                /\ req[i].pc = "analyzing"
                /\ req[i].graph # <<>>
                /\ req'[i].settled = "resolved"
                /\ req'[i].value = cachedAnalysis'
                /\ lastRun' = [outcome |-> "ok", by |-> i, before |-> req[i].seen,
                               graph |-> <<req[i].graph>>, error |-> ""]
                /\ cachedAnalysis'[1].timestamp = now'
                /\ cachedAnalysis'[1].llmAnalysis # null
                /\ cachedAnalysis'[1].heuristicAnalysis
                      = analyzeHeuristically(req[i].graph)]_vars

\* The second report is cached: it is about the graph of the run that made
\* it, which has a cycle, while the first run saw none.
C27_Witness ==
    /\ cachedAnalysis # null
    /\ cachedAnalysis[1].timestamp = 2
    /\ lastRun.outcome = "ok"
    /\ lastRun.before # null
    /\ lastRun.before[1].heuristicAnalysis.circularDependencies = <<>>
    /\ cachedAnalysis[1].heuristicAnalysis = analyzeHeuristically(lastRun.graph[1])
    /\ cachedAnalysis[1].heuristicAnalysis.circularDependencies # <<>>

\* C28: isAnalysisRunning is true exactly while a caller's pipeline is
\* between the start of its graph build and its end: every end of a run,
\* failed or not, leaves it false, and a run can start again afterwards.
C28_FlagTracksPipeline ==
    /\ isAnalysisRunning <=> InPipeline # {}
    /\ lastRun.outcome # "none" /\ InPipeline = {} => ~isAnalysisRunning
    /\ \A i \in InPipeline : \A j \in 1..Len(req) :
          (j < i /\ req[j].pc # "polling") => req[j].pc = "done"

\* A run failed, and the refresh that came afterwards has started a new
\* build, with the flag set again.
C28_Witness ==
    /\ lastRun.outcome = "failed"
    /\ isAnalysisRunning
    /\ \E i \in InPipeline :
          /\ i > lastRun.by
          /\ req[i].kind = "POST"
          /\ req[i].pc = "parsing"
          /\ req[lastRun.by].settled = "rejected"

\* C29: a slot that holds a report holds one after every step, whatever the
\* step is: a GET, a refresh, the end of a failed or of a successful run.
C29_CacheNeverEmptied ==
    [][cachedAnalysis # null => cachedAnalysis' # null]_vars

\* With a report cached, a build has thrown and a later run has failed at
\* the external analyzer; the report is still there.
C29_Witness ==
    /\ cachedAnalysis # null
    /\ cachedAnalysis[1].timestamp = 1
    /\ lastRun.outcome = "failed"
    /\ lastRun.error = "LLM analysis failed."
    /\ lastRun.before = cachedAnalysis
    /\ \E i \in 1..Len(req) : req[i].resp.error = "glob failed" /\ req[i].seen # null


(***************************************************************************)
(* The heuristic analysis and the graph it is given.                       *)
(***************************************************************************)
\* C30: the calls of the heuristic analysis leave the graph as it was,
\* keys, edge lists and their order, so what is serialized for the
\* external analyzer is what the heuristics read; the hubs found on the
\* arrays as objects are the hubs returned, and the analysis run once more
\* on the graph as it is afterwards gives the results over again.
C30_AnalysisLeavesGraphUnchanged ==
    /\ [][(hPc \in {"input", "hubs"} /\ hPc' # hPc) => hInput' = hInput]_vars
    /\ [](hPc = "done" =>
            /\ analyzeHeuristically(hInput)
                  = [circularDependencies |-> hCycles,
                     tightlyCoupledModules |-> hHubs[HUB_THRESHOLD]]
            /\ \A t \in 1..MaxThreshold :
                  findTightlyCoupledModulesOnObjects(hInput, t).hubs = hHubs[t])

\* A graph with a cycle and a hub has been analyzed and is still the same.
C30_Witness ==
    /\ hPc = "done"
    /\ hInput = << [key |-> "A", deps |-> <<"B", "B">>],
                   [key |-> "B", deps |-> <<"A">>],
                   [key |-> "C", deps |-> <<"B">>] >>
    /\ hCycles = << [path |-> <<"A", "B", "A">>] >>
    /\ hHubs[HUB_THRESHOLD] = << [module |-> "B", importedBy |-> <<"A", "A", "C">>] >>


(***************************************************************************)
(* The graph a build returns.                                              *)
(***************************************************************************)
\* The build has returned its graph.
GraphReturned == pPc \in {"done", "sent"}

\* The quoted specifiers of a text that begin with "./", in source order.
dotSpecifiers(content) ==
    LET at == SelectSeq([k \in 1..Len(content) |-> k],
                        LAMBDA k : content[k].t = "str" /\ content[k].spec.dot)
    IN  [i \in 1..Len(at) |-> content[at[i]].spec]

\* s can be had from t by leaving elements out.
RECURSIVE isSubsequence(_, _)
isSubsequence(s, t) ==
    IF s = <<>> THEN TRUE
    ELSE IF t = <<>> THEN FALSE
    ELSE IF Head(s) = Head(t) THEN isSubsequence(Tail(s), Tail(t))
    ELSE isSubsequence(s, Tail(t))

\* What one import of the file at relativeFilePath resolves to.
resolvedTarget(relativeFilePath, importPath) ==
    normalize(platform,
              join(platform, dirname(relativeFilePath),
                   IF extname(importPath) = "" THEN appendTs(importPath)
                   ELSE importPath))

\* C31: in the graph a build returns every key is a file this build found
\* and read, each once; the edge list of a key holds the resolved imports of
\* its text, in source order and with duplicates; the loop starts from an
\* empty map, so nothing of an earlier build is in the graph.
C31_GraphIsOfThisBuild ==
    /\ (pPc = "loop" /\ fileIdx = 1) => depMap = <<>>
    /\ GraphReturned =>
          /\ \A f \in Range(analysisFiles) :
                f \notin toolFiles /\ \E k \in 1..Len(tree) : tree[k].path = f
          /\ \A e \in 1..Len(depMap) :
                \E f \in Range(analysisFiles) :
                    /\ treeFile(f).readable
                    /\ depMap[e].key = keyOf(f)
                    /\ \A d \in 1..Len(depMap) : depMap[d].key = depMap[e].key => d = e
                    /\ LET targets == execAll(treeFile(f).content, 1)
                           kept == SelectSeq(targets, LAMBDA t : ~hasOtherExtension(t))
                       IN  /\ isSubsequence(targets, dotSpecifiers(treeFile(f).content))
                           /\ depMap[e].deps
                                 = [i \in 1..Len(kept) |->
                                       resolvedTarget(relative(platform, f), kept[i])]

\* A second build has returned: a file of the first graph can no longer be
\* read and has no key now, and the file left has the same import twice.
C31_Witness ==
    /\ pPc = "done"
    /\ prevRun # null
    /\ Len(prevRun[1].graph) = 2
    /\ Len(depMap) = 1
    /\ \E k \in 1..Len(tree) :
          /\ ~tree[k].readable
          /\ keyOf(tree[k].path) \in Range(mapKeys(prevRun[1].graph))
          /\ keyOf(tree[k].path) \notin Range(mapKeys(depMap))
    /\ Len(depMap[1].deps) >= 2
    /\ depMap[1].deps[1] = depMap[1].deps[2]

====
